---------------------------- MODULE Spec2Model ----------------------------
(***************************************************************************)
(* TempTracker (src/main.py): a FastAPI service that validates and stores  *)
(* temperature / humidity readings in a Firebase list ('readings') and     *)
(* serves the readings of a trailing window and their analysis.            *)
(*                                                                         *)
(* Numbers.  Readings are integer valued here.  statistics.mean and        *)
(* statistics.stdev compute on exact fractions and round once, and every   *)
(* comparison the handlers make is between such values, so the comparisons *)
(* are modelled exactly, by cross multiplication on integers.              *)
(*                                                                         *)
(* Time.  A datetime is a number of ticks; TicksPerHour ticks make one     *)
(* whole unit of timedelta(hours=...).  datetime.now() is the naive local  *)
(* wall clock: each handler reads it as an input, and nothing orders two   *)
(* readings of it.  isoformat() writes the whole part and, only when it is *)
(* not zero, the fractional part; strings compare field by field, a proper *)
(* prefix first, as Python compares the zero padded text.                  *)
(***************************************************************************)
EXTENDS Integers, Sequences, FiniteSets

VARIABLES store,   \* db.reference('readings'): the pushed readings, in push-key order
          resp,    \* the last request and the response it got
          pushed   \* history: each reading acknowledged since the last delete, with
                   \* the clock reading it was stamped with

vars == <<store, resp, pushed>>

\* The most readings the store holds in the request-driven specification.
MaxStore == 2
\* The wall clock reads 0..MaxTime ticks.
MaxTime == 2
\* Ticks in one hour of timedelta(hours=hours).
TicksPerHour == 2

\* The most readings of a store drawn from Samples.
MaxSample == 3
\* The most readings of a store of typical readings with a few outliers.
MaxBulk == 15

Times == 0..MaxTime
HourInputs == {0, 1}
TempInputs == {-51, -50, 150, 151}
HumInputs == {-1, 0, 100, 101}

-----------------------------------------------------------------------------
(* datetime <-> str *)

isoformat(d) ==
    IF d % TicksPerHour = 0
    THEN <<d \div TicksPerHour>>
    ELSE <<d \div TicksPerHour, d % TicksPerHour>>

fromisoformat(s) ==
    s[1] * TicksPerHour + (IF Len(s) > 1 THEN s[2] ELSE 0)

\* str.__lt__ on two isoformat strings
StrLess(a, b) ==
    \E i \in 1..Len(b) :
        /\ \A j \in 1..(i - 1) : j <= Len(a) /\ a[j] = b[j]
        /\ (i > Len(a) \/ a[i] < b[i])

timedelta(hours) == hours * TicksPerHour

-----------------------------------------------------------------------------
(* sorted(): stable, ascending by key *)

InsertByStr(s, x) ==
    LET k == Cardinality({i \in 1..Len(s) : ~StrLess(x.timestamp, s[i].timestamp)})
    IN  SubSeq(s, 1, k) \o <<x>> \o SubSeq(s, k + 1, Len(s))

\* no sort: the store's own order
UnsortedByStr(s) == s

RECURSIVE SortedByStr(_)
SortedByStr(s) ==
    IF s = <<>> THEN <<>>
    ELSE InsertByStr(SortedByStr(SubSeq(s, 1, Len(s) - 1)), s[Len(s)])

-----------------------------------------------------------------------------
(* requests and responses *)

\* what a handler returns (200) or raises (HTTPException)
Result(status, detail, body) == [status |-> status, detail |-> detail, body |-> body]

NoResp == [op |-> "none", input |-> <<>>, now |-> 0, result |-> Result(0, "", <<>>)]

Response(op, input, now, result) ==
    [op |-> op, input |-> input, now |-> now, result |-> result]

\* a check that lets 151 through
ValidTemperatureUpTo151(t) == -50 <= t /\ t <= 151
ValidTemperature(t) == -50 <= t /\ t <= 150

\* a check that refuses the bound 0
ValidHumidityAboveZero(h) == 0 < h /\ h <= 100
ValidHumidity(h) == 0 <= h /\ h <= 100

\* POST /reading.  datetime.now() is read only once the values are accepted.
add_reading ==
    \E temperature \in TempInputs, humidity \in HumInputs :
        LET input == [temperature |-> temperature, humidity |-> humidity] IN
        IF ~ValidTemperature(temperature)
        THEN /\ resp' = Response("add_reading", input, 0,
                                 Result(400, "Temperature out of valid range", <<>>))
             /\ UNCHANGED <<store, pushed>>
        ELSE IF ~ValidHumidity(humidity)
        THEN /\ resp' = Response("add_reading", input, 0,
                                 Result(400, "Humidity must be between 0 and 100", <<>>))
             /\ UNCHANGED <<store, pushed>>
        ELSE \E now \in Times :
             LET new_reading == [temperature |-> temperature,
                                 humidity |-> humidity,
                                 timestamp |-> isoformat(now)]
             IN  /\ Len(store) < MaxStore
                 /\ store' = Append(store, new_reading)
                 /\ pushed' = pushed \cup {[data |-> new_reading, at |-> now]}
                 /\ resp' = Response("add_reading", input, now,
                                     Result(200, "Reading recorded", new_reading))

\* a filter that keeps the reading exactly at the cutoff
RecentReadingsFromCutoff(readings, cutoff_time) ==
    SelectSeq(readings, LAMBDA reading : fromisoformat(reading.timestamp) >= cutoff_time)

\* the loop of get_readings and of get_analysis: the readings after the cutoff
RecentReadings(readings, cutoff_time) ==
    SelectSeq(readings, LAMBDA reading : fromisoformat(reading.timestamp) > cutoff_time)

ReadingsBody(readings, hours, now) ==
    IF readings = <<>> THEN <<>>
    ELSE SortedByStr(RecentReadings(readings, now - timedelta(hours)))

\* a GET /readings that also drops from the store the readings it filtered out
get_readings_pruning ==
    \E hours \in HourInputs, now \in Times :
        /\ resp' = Response("get_readings", [hours |-> hours], now,
                            Result(200, "", ReadingsBody(store, hours, now)))
        /\ store' = RecentReadings(store, now - timedelta(hours))
        /\ UNCHANGED pushed

\* GET /readings
get_readings ==
    \E hours \in HourInputs, now \in Times :
        /\ resp' = Response("get_readings", [hours |-> hours], now,
                            Result(200, "", ReadingsBody(store, hours, now)))
        /\ UNCHANGED <<store, pushed>>

\* DELETE /readings
clear_all_readings ==
    /\ store' = <<>>
    /\ pushed' = {}
    /\ resp' = Response("clear_all_readings", <<>>, 0,
                        Result(200, "All readings deleted", <<>>))

-----------------------------------------------------------------------------
(* statistics on integer samples, kept exact *)

RECURSIVE SumTo(_, _)
SumTo(s, k) == IF k = 0 THEN 0 ELSE s[k] + SumTo(s, k - 1)
Sum(s) == SumTo(s, Len(s))

RECURSIVE SumSqTo(_, _)
SumSqTo(s, k) == IF k = 0 THEN 0 ELSE s[k] * s[k] + SumSqTo(s, k - 1)
SumSq(s) == SumSqTo(s, Len(s))

Max(s) == CHOOSE x \in {s[i] : i \in 1..Len(s)} : \A i \in 1..Len(s) : s[i] <= x
Min(s) == CHOOSE x \in {s[i] : i \in 1..Len(s)} : \A i \in 1..Len(s) : x <= s[i]

\* mean(a) > mean(b), both non-empty
MeanGreater(a, b) == Sum(a) * Len(b) > Sum(b) * Len(a)

\* lo <= mean(s) <= hi
MeanWithin(s, lo, hi) == lo * Len(s) <= Sum(s) /\ Sum(s) <= hi * Len(s)

\* round(num / den, 2) in hundredths: to nearest, a tie to the even hundredth
Round2(num, den) ==
    LET q == (100 * num) \div den
        r == 100 * num - q * den
    IN  IF 2 * r > den THEN q + 1
        ELSE IF 2 * r = den /\ q % 2 = 1 THEN q + 1
        ELSE q

\* what mean() and stdev() read of a sample: its size, sum and sum of squares
Moments(values) == [n |-> Len(values), sum |-> Sum(values), sumsq |-> SumSq(values)]

\* the same test with >= for >
SpikeNonStrict(x, m) ==
    (m.n - 1) * (m.n * x - m.sum) * (m.n * x - m.sum)
        >= 4 * m.n * (m.n * m.sumsq - m.sum * m.sum)

\* the same test against the population deviation (divisor n)
SpikePopulation(x, m) ==
    m.n * (m.n * x - m.sum) * (m.n * x - m.sum)
        > 4 * m.n * (m.n * m.sumsq - m.sum * m.sum)

\* abs(x - mean) > 2 * stdev, for the sample with moments m; stdev divides by
\* n - 1: (x - S/n)^2 > 4 * (n*Q - S^2) / (n * (n - 1)), cleared of denominators
Spike(x, m) ==
    (m.n - 1) * (m.n * x - m.sum) * (m.n * x - m.sum)
        > 4 * m.n * (m.n * m.sumsq - m.sum * m.sum)

-----------------------------------------------------------------------------
(* get_analysis *)

\* sorted(zip(timestamps, temps, humidities), key=lambda x: x[0])
InsertByTime(s, x) ==
    LET k == Cardinality({i \in 1..Len(s) : ~(x[1] < s[i][1])})
    IN  SubSeq(s, 1, k) \o <<x>> \o SubSeq(s, k + 1, Len(s))

RECURSIVE SortedByTime(_)
SortedByTime(s) ==
    IF s = <<>> THEN <<>>
    ELSE InsertByTime(SortedByTime(SubSeq(s, 1, Len(s) - 1)), s[Len(s)])

Zip(recent) ==
    [i \in 1..Len(recent) |->
        <<fromisoformat(recent[i].timestamp), recent[i].temperature, recent[i].humidity>>]

\* [t[k] for t in data]
Column(data, k) == [i \in 1..Len(data) |-> data[i][k]]

\* a split that gives the middle reading of an odd window to the first half
TrendUpperSplit(values) ==
    IF Len(values) > 1
    THEN LET first_half == SubSeq(values, 1, (Len(values) + 1) \div 2)
             second_half == SubSeq(values, (Len(values) + 1) \div 2 + 1, Len(values))
         IN  IF MeanGreater(second_half, first_half) THEN "Rising" ELSE "Falling"
    ELSE "Stable"

\* one metric's trend, from the sorted values of that metric
Trend(values) ==
    IF Len(values) > 1
    THEN LET first_half == SubSeq(values, 1, Len(values) \div 2)
             second_half == SubSeq(values, Len(values) \div 2 + 1, Len(values))
         IN  IF MeanGreater(second_half, first_half) THEN "Rising" ELSE "Falling"
    ELSE "Stable"

\* a score whose optimal band leaves out 18 and 24
TempScoreOpenBand(temps) ==
    IF 18 * Len(temps) < Sum(temps) /\ Sum(temps) < 24 * Len(temps) THEN 50
    ELSE IF MeanWithin(temps, 15, 30) THEN 25
    ELSE 0

TempScore(temps) ==
    IF MeanWithin(temps, 18, 24) THEN 50
    ELSE IF MeanWithin(temps, 15, 30) THEN 25
    ELSE 0

TempComment(temps) ==
    IF MeanWithin(temps, 18, 24) THEN "Optimal temperature"
    ELSE IF MeanWithin(temps, 15, 30) THEN "Acceptable temperature"
    ELSE "Outside comfort zone"

HumidityScore(humidities) ==
    IF MeanWithin(humidities, 40, 60) THEN 50
    ELSE IF MeanWithin(humidities, 30, 70) THEN 25
    ELSE 0

HumidityComment(humidities) ==
    IF MeanWithin(humidities, 40, 60) THEN "Optimal humidity"
    ELSE IF MeanWithin(humidities, 30, 70) THEN "Acceptable humidity"
    ELSE "Outside comfort zone"

ComfortLevel(comfort_score) ==
    IF comfort_score >= 80 THEN "Excellent"
    ELSE IF comfort_score >= 60 THEN "Good"
    ELSE IF comfort_score >= 40 THEN "Fair"
    ELSE "Poor"

\* the test of the anomaly loop
IsAnomaly(t, temp_std, humidity_std) ==
    Spike(t[2], temp_std) \/ Spike(t[3], humidity_std)

\* the two labels swapped
AnomalyReasonSwapped(t, temp_std) ==
    IF Spike(t[2], temp_std) THEN "Humidity spike" ELSE "Temperature spike"

AnomalyReason(t, temp_std) ==
    IF Spike(t[2], temp_std) THEN "Temperature spike" ELSE "Humidity spike"

AnomalyEntry(t, temp_std) ==
    [temperature |-> t[2], humidity |-> t[3], timestamp |-> isoformat(t[1]),
     reason |-> AnomalyReason(t, temp_std)]

\* the anomaly loop over sorted_data
Flagged(sorted_data, temp_std, humidity_std) ==
    LET flagged == SelectSeq(sorted_data, LAMBDA t : IsAnomaly(t, temp_std, humidity_std))
    IN  [i \in 1..Len(flagged) |-> AnomalyEntry(flagged[i], temp_std)]

\* the anomalies list before the slice
Anomalies(sorted_data, temps, humidities) ==
    IF Len(temps) > 2
    THEN Flagged(sorted_data, Moments(temps), Moments(humidities))
    ELSE <<>>

\* anomalies[-5:]
LastFive(anomalies) ==
    SubSeq(anomalies, IF Len(anomalies) < 5 THEN 1 ELSE Len(anomalies) - 4, Len(anomalies))

\* anomalies[:5]
FirstFive(anomalies) ==
    SubSeq(anomalies, 1, IF Len(anomalies) < 5 THEN Len(anomalies) ELSE 5)

\* the comfort analysis
Comfort(comfort_score, temps, humidities) ==
    [level |-> ComfortLevel(comfort_score),
     score |-> comfort_score,
     temperature_comment |-> TempComment(temps),
     humidity_comment |-> HumidityComment(humidities)]

\* the statistics, trends, comfort and anomalies of a non-empty window
Report(hours, temps, humidities, sorted_data) ==
    [period_hours |-> hours,
     readings_count |-> Len(temps),
     temperature |->
       [average |-> Round2(Sum(temps), Len(temps)),
        max |-> Round2(Max(temps), 1),
        min |-> Round2(Min(temps), 1),
        trend |-> Trend(Column(sorted_data, 2))],
     humidity |->
       [average |-> Round2(Sum(humidities), Len(humidities)),
        max |-> Round2(Max(humidities), 1),
        min |-> Round2(Min(humidities), 1),
        trend |-> Trend(Column(sorted_data, 3))],
     comfort |-> Comfort(TempScore(temps) + HumidityScore(humidities), temps, humidities),
     anomalies |-> FirstFive(Anomalies(sorted_data, temps, humidities))]

\* the body of get_analysis once the store returned some readings
AnalysisOfRecent(hours, recent) ==
    IF recent = <<>>
    THEN Result(404, "No recent readings found", <<>>)
    ELSE Result(200, "",
                Report(hours,
                       [i \in 1..Len(recent) |-> recent[i].temperature],
                       [i \in 1..Len(recent) |-> recent[i].humidity],
                       SortedByTime(Zip(recent))))

\* what GET /analysis returns on the readings the store holds
Analysis(readings, hours, now) ==
    IF readings = <<>>
    THEN Result(404, "No readings found", <<>>)
    ELSE AnalysisOfRecent(hours, RecentReadings(readings, now - timedelta(hours)))

\* GET /analysis
get_analysis ==
    \E hours \in HourInputs, now \in Times :
        /\ resp' = Response("get_analysis", [hours |-> hours], now,
                            Analysis(store, hours, now))
        /\ UNCHANGED <<store, pushed>>

Init ==
    /\ store = <<>>
    /\ resp = NoResp
    /\ pushed = {}

Next ==
    \/ add_reading
    \/ get_readings
    \/ get_analysis
    \/ clear_all_readings

Spec == Init /\ [][Next]_vars

-----------------------------------------------------------------------------
(* Stores for the analysis taken alone.  Every one is a list of accepted   *)
(* readings, which add_reading can have pushed in that order.              *)

\* accepted readings around the comfort thresholds: <<temperature, humidity>>
Samples == {<<10, 20>>, <<15, 70>>, <<18, 60>>, <<20, 45>>,
            <<24, 40>>, <<30, 30>>, <<35, 80>>}

\* a typical reading and the two outliers
Typical == [temperature |-> 20, humidity |-> 50]
High == [temperature |-> 80, humidity |-> 100]
Low == [temperature |-> -40, humidity |-> 0]

\* the clock readings of successive pushes: all alike, cycling up, cycling down
Layouts == {"same", "up", "down"}

LayoutTime(layout, i) ==
    IF layout = "same" THEN MaxTime
    ELSE IF layout = "up" THEN (i - 1) % (MaxTime + 1)
    ELSE MaxTime - ((i - 1) % (MaxTime + 1))

SampleStores ==
    UNION {
        { [i \in 1..n |-> [temperature |-> f[i][1], humidity |-> f[i][2],
                           timestamp |-> isoformat(LayoutTime(layout, i))]]
          : f \in [1..n -> Samples], layout \in Layouts }
        : n \in 0..MaxSample }

\* the i-th of a run of outliers starting after position start: high, low, high
Outlier(i, start, count) ==
    IF i <= start \/ i > start + count THEN Typical
    ELSE IF (i - start) % 2 = 1 THEN High
    ELSE Low

\* n readings: kt temperature outliers from the first on, kh humidity outliers
\* from position sh + 1 on, every other value typical
BulkStores ==
    { [i \in 1..n |-> [temperature |-> Outlier(i, 0, kt).temperature,
                       humidity |-> Outlier(i, sh, kh).humidity,
                       timestamp |-> isoformat(LayoutTime(layout, i))]]
      : n \in 0..MaxBulk, kt \in 0..3, kh \in 0..3, sh \in 0..3, layout \in Layouts }

InitAnalysis ==
    /\ store \in SampleStores \cup BulkStores
    /\ resp = NoResp
    /\ pushed = {[data |-> store[i], at |-> fromisoformat(store[i].timestamp)]
                    : i \in 1..Len(store)}

NextAnalysis == get_analysis

SpecAnalysis == InitAnalysis /\ [][NextAnalysis]_vars

-----------------------------------------------------------------------------
(* The request in resp, read against the store it was served from.  A      *)
(* query leaves the store alone, so in a state whose resp is a query the   *)
(* store is the one the query read.                                        *)

IsQuery(op) == resp.op = op
Served(op) == resp.op = op /\ resp.result.status = 200

Cutoff == resp.now - resp.input.hours * TicksPerHour
TimeOf(i) == fromisoformat(store[i].timestamp)
\* the positions of the store inside the window of the request
Kept == {i \in 1..Len(store) : TimeOf(i) > Cutoff}

RECURSIVE SumOver(_, _)
SumOver(S, f) ==
    IF S = {} THEN 0
    ELSE LET i == CHOOSE j \in S : TRUE IN f[i] + SumOver(S \ {i}, f)

TempAt == [i \in 1..Len(store) |-> store[i].temperature]
HumAt == [i \in 1..Len(store) |-> store[i].humidity]

N == Cardinality(Kept)

\* position j comes before position i in ascending order of time, the store's
\* order deciding between equal stamps (sorted() is stable)
Before(j, i) == TimeOf(j) < TimeOf(i) \/ (TimeOf(j) = TimeOf(i) /\ j < i)

\* the place, from 1, of position i among the positions S in that order
RankIn(S, i) == Cardinality({j \in S : Before(j, i)}) + 1

\* what the test reads of metric f over the window: the size n, the sum and
\* n * n times the sum of the squared deviations from the mean sum / n
Deviations(f, n, sum) ==
    [n |-> n, sum |-> sum,
     ssd |-> SumOver(Kept, [j \in 1..Len(store) |-> (n * f[j] - sum) * (n * f[j] - sum)])]
WindowOf(f) == Deviations(f, N, SumOver(Kept, f))

\* |x - mean| > 2 * sqrt(sum of squared deviations / (n - 1)), both sides
\* squared and multiplied by n * n * (n - 1)
Exceeds(x, w) == (w.n - 1) * (w.n * x - w.sum) * (w.n * x - w.sum) > 4 * w.ssd

QualifyingIn(wt, wh) ==
    {i \in Kept : Exceeds(TempAt[i], wt) \/ Exceeds(HumAt[i], wh)}

\* the positions of the window whose reading deviates by more than 2 sample
\* standard deviations in temperature or in humidity
Qualifying == QualifyingIn(WindowOf(TempAt), WindowOf(HumAt))

\* anomaly entry e reports the reading at position i
Reports(e, i) ==
    /\ e.temperature = TempAt[i]
    /\ e.humidity = HumAt[i]
    /\ e.timestamp = store[i].timestamp

-----------------------------------------------------------------------------
(* C1: in every reachable state every stored reading has its temperature   *)
(* in [-50, 150] and its humidity in [0, 100].                             *)
C1_StoredInRange ==
    \A i \in 1..Len(store) :
        /\ -50 <= store[i].temperature /\ store[i].temperature <= 150
        /\ 0 <= store[i].humidity /\ store[i].humidity <= 100

\* a store holding both bounds of both ranges, after a delete and new pushes
C1_Witness ==
    /\ Len(store) >= 2
    /\ \E i, j \in 1..Len(store) :
        /\ store[i].temperature = -50 /\ store[i].humidity = 100
        /\ store[j].temperature = 150 /\ store[j].humidity = 0
    /\ resp.op = "add_reading"

(* C2: add_reading answers the temperature error for a temperature outside *)
(* [-50, 150], the humidity error for a temperature inside and a humidity  *)
(* outside [0, 100], and succeeds for every pair inside, bounds included;  *)
(* a failing add_reading leaves the store as it was, a successful one      *)
(* appends exactly the reading it was given.                               *)
C2_AddReadingOutcome ==
    [][resp'.op = "add_reading" =>
        LET t == resp'.input.temperature
            h == resp'.input.humidity
            tempOk == -50 <= t /\ t <= 150
            humOk == 0 <= h /\ h <= 100
        IN  /\ ~tempOk => /\ resp'.result.status = 400
                          /\ resp'.result.detail = "Temperature out of valid range"
            /\ tempOk /\ ~humOk => /\ resp'.result.status = 400
                                   /\ resp'.result.detail = "Humidity must be between 0 and 100"
            /\ tempOk /\ humOk => resp'.result.status = 200
            /\ resp'.result.status # 200 => store' = store
            /\ resp'.result.status = 200 =>
                   /\ Len(store') = Len(store) + 1
                   /\ SubSeq(store', 1, Len(store)) = store
                   /\ store'[Len(store')].temperature = t
                   /\ store'[Len(store')].humidity = h
    ]_vars

\* a refused humidity, the temperature being the accepted bound, on a store that holds readings
C2_Witness ==
    /\ resp.op = "add_reading"
    /\ resp.input = [temperature |-> 150, humidity |-> 101]
    /\ resp.result.status = 400
    /\ Len(store) > 0

(* C3: get_analysis keeps exactly the readings stamped strictly after      *)
(* now - hours, answers 404 exactly when none is kept (the store empty, or *)
(* every reading at or before the cutoff), and a result it returns counts  *)
(* at least one reading.                                                   *)
C3_WindowAndNoReadings ==
    IsQuery("get_analysis") =>
        /\ resp.result.status \in {200, 404}
        /\ resp.result.status = 404 <=> Kept = {}
        /\ resp.result.status = 404 =>
               resp.result.detail \in {"No readings found", "No recent readings found"}
        /\ resp.result.status = 200 =>
               /\ resp.result.body.readings_count = Cardinality(Kept)
               /\ resp.result.body.readings_count > 0
               /\ \A i \in Kept :
                      /\ resp.result.body.temperature.min <= 100 * TempAt[i]
                      /\ resp.result.body.temperature.max >= 100 * TempAt[i]
               /\ \E i \in Kept : resp.result.body.temperature.max = 100 * TempAt[i]
               /\ \E i \in Kept : resp.result.body.temperature.min = 100 * TempAt[i]

\* a store whose only readings in reach sit exactly at the cutoff: 404
C3_Witness ==
    /\ IsQuery("get_analysis")
    /\ Len(store) > 0
    /\ \E i \in 1..Len(store) : TimeOf(i) = Cutoff
    /\ resp.result.status = 404

\* the two halves of the window in ascending order of time, and the trend they give
FirstHalf == {i \in Kept : RankIn(Kept, i) <= N \div 2}
SecondHalf == Kept \ FirstHalf

TrendOf(f, n, first, second) ==
    IF n = 1 THEN "Stable"
    ELSE IF SumOver(second, f) * Cardinality(first) > SumOver(first, f) * Cardinality(second)
         THEN "Rising"
         ELSE "Falling"

TrendsAre(body, n, first, second) ==
    /\ body.temperature.trend = TrendOf(TempAt, n, first, second)
    /\ body.humidity.trend = TrendOf(HumAt, n, first, second)
    /\ body.temperature.trend = "Stable" <=> n = 1
    /\ body.humidity.trend = "Stable" <=> n = 1
    /\ n % 2 = 1 => Cardinality(second) = Cardinality(first) + 1

(* C4: for each metric on its own, over the n readings of the window in    *)
(* ascending order of time, the trend is "Stable" exactly when n = 1;      *)
(* otherwise "Rising" when the mean of the readings at sorted places       *)
(* [n div 2, n) is strictly greater than the mean of those at              *)
(* [0, n div 2), and "Falling" in every other case, equal means included;  *)
(* an odd n puts the middle reading in the second half.                    *)
C4_Trend ==
    Served("get_analysis") => TrendsAre(resp.result.body, N, FirstHalf, SecondHalf)

\* an odd window, pushed out of time order, whose temperature rises only because
\* the middle reading counts in the second half, and whose humidity falls
C4_Witness ==
    /\ Served("get_analysis")
    /\ N = 3
    /\ \E i, j \in Kept : i < j /\ TimeOf(i) > TimeOf(j)
    /\ resp.result.body.temperature.trend = "Rising"
    /\ resp.result.body.humidity.trend = "Falling"
    /\ \E m \in SecondHalf :
           /\ RankIn(Kept, m) = 2
           /\ SumOver(SecondHalf \ {m}, TempAt) * 2 <= SumOver(FirstHalf \cup {m}, TempAt)

\* one axis of the score, and the score and level of a window
AxisTerm(n, total, optLo, optHi, okLo, okHi) ==
    IF optLo * n <= total /\ total <= optHi * n THEN 50
    ELSE IF okLo * n <= total /\ total <= okHi * n THEN 25
    ELSE 0

ComfortIs(comfort, n, tempSum, humSum) ==
    /\ comfort.score = AxisTerm(n, tempSum, 18, 24, 15, 30)
                         + AxisTerm(n, humSum, 40, 60, 30, 70)
    /\ comfort.score \in {0, 25, 50, 75, 100}
    /\ comfort.level = "Excellent" <=> comfort.score >= 80
    /\ comfort.level = "Good" <=> comfort.score >= 60 /\ comfort.score < 80
    /\ comfort.level = "Fair" <=> comfort.score >= 40 /\ comfort.score < 60
    /\ comfort.level = "Poor" <=> comfort.score < 40
    /\ tempSum = 20 * n /\ humSum = 45 * n
           => comfort.score = 100 /\ comfort.level = "Excellent"
    /\ tempSum = 35 * n /\ humSum = 80 * n
           => comfort.score = 0 /\ comfort.level = "Poor"

(* C5: the comfort score is the sum of a temperature term (50 for an       *)
(* average in [18, 24], else 25 for one in [15, 30], else 0) and a         *)
(* humidity term (50 for [40, 60], else 25 for [30, 70], else 0), so one   *)
(* of 0, 25, 50, 75, 100; the level is "Excellent" from 80, "Good" from    *)
(* 60, "Fair" from 40, otherwise "Poor"; averages 20 / 45 give 100         *)
(* "Excellent", averages 35 / 80 give 0 "Poor".                            *)
C5_Comfort ==
    Served("get_analysis") =>
        ComfortIs(resp.result.body.comfort, N, SumOver(Kept, TempAt), SumOver(Kept, HumAt))

\* an average temperature exactly 18 from unequal readings, a humidity only acceptable: 75, "Good"
C5_Witness ==
    /\ Served("get_analysis")
    /\ N > 1
    /\ SumOver(Kept, TempAt) = 18 * N
    /\ \E i \in Kept : TempAt[i] # 18
    /\ resp.result.body.comfort.score = 75
    /\ resp.result.body.comfort.level = "Good"

\* the list holds only qualifying readings, and all of them when they are at most 5
ListsTheQualifying(anomalies, n, qualifying) ==
    /\ n <= 2 => anomalies = <<>>
    /\ n > 2 =>
           /\ \A k \in 1..Len(anomalies) :
                  \E i \in qualifying : Reports(anomalies[k], i)
           /\ Cardinality(qualifying) <= 5 =>
                  \A i \in qualifying :
                      \E k \in 1..Len(anomalies) : Reports(anomalies[k], i)

(* C6: a window of n <= 2 readings has no anomalies; for n > 2 every       *)
(* anomaly listed is a reading of the window with |temp - avg_temp| > 2 *  *)
(* sample standard deviation of temperature or |hum - avg_hum| > 2 *       *)
(* sample standard deviation of humidity (strict, divisor n - 1), and,     *)
(* when at most 5 readings satisfy that, every such reading is listed;     *)
(* temperatures 20, 20, 20, 20, 20, 80 with one humidity list only the 80. *)
C6_AnomalyTest ==
    Served("get_analysis") =>
        ListsTheQualifying(resp.result.body.anomalies, N, Qualifying)

\* temperatures 20, 20, 20, 20, 20 and 80, one humidity: the 80 alone is listed
C6_Witness ==
    /\ Served("get_analysis")
    /\ N = 6
    /\ Cardinality({i \in Kept : TempAt[i] = 20}) = 5
    /\ Cardinality({i \in Kept : TempAt[i] = 80}) = 1
    /\ \A i \in Kept : HumAt[i] = 50
    /\ Len(resp.result.body.anomalies) = 1
    /\ resp.result.body.anomalies[1].temperature = 80

\* the list is the first five of the qualifying readings in ascending order of time
ListsTheFirstFive(anomalies, qualifying) ==
    /\ Len(anomalies) <= 5
    /\ \A k \in 1..(Len(anomalies) - 1) :
           fromisoformat(anomalies[k].timestamp)
               <= fromisoformat(anomalies[k + 1].timestamp)
    /\ Cardinality(qualifying) > 5 => Len(anomalies) = 5
    /\ Cardinality(qualifying) <= 5 => Len(anomalies) = Cardinality(qualifying)
    /\ \A i \in qualifying :
           RankIn(qualifying, i) <= 5 =>
               Reports(anomalies[RankIn(qualifying, i)], i)

(* C7: the anomalies list has at most 5 entries, in ascending order of     *)
(* time, and they are the chronologically first of the readings that       *)
(* satisfy the test: when more than 5 do, exactly the first 5 of them.     *)
C7_FirstFiveInTimeOrder ==
    Served("get_analysis") =>
        ListsTheFirstFive(resp.result.body.anomalies, Qualifying)

\* six readings satisfy the test, at several times and pushed out of time order: five are listed
C7_Witness ==
    /\ Served("get_analysis")
    /\ Cardinality(Qualifying) > 5
    /\ Len(resp.result.body.anomalies) = 5
    /\ \E i, j \in Qualifying : i < j /\ TimeOf(i) > TimeOf(j)

\* the same readings in every order of enumeration
Reorderings(readings) ==
    { [i \in 1..Len(readings) |-> readings[f[i]]]
      : f \in { g \in [1..Len(readings) -> 1..Len(readings)] :
                    \A i, j \in 1..Len(readings) : g[i] = g[j] => i = j } }

(* C8: the result of get_analysis depends only on the set of stored        *)
(* readings, hours and now: served from the same readings enumerated in    *)
(* any other order, readings that share a timestamp included, the same     *)
(* request gets the identical result.                                      *)
C8_SameResultInAnyOrder ==
    IsQuery("get_analysis") =>
        \A readings \in Reorderings(store) :
            Analysis(readings, resp.input.hours, resp.now) = resp.result

(* C9: every reading acknowledged since the last delete and stamped T      *)
(* with T > now - hours is in the list get_readings returns, with the      *)
(* temperature, humidity and timestamp of its acknowledgement; the list is *)
(* in ascending order of time and holds no reading at or before the        *)
(* cutoff.                                                                 *)
C9_RoundTrip ==
    IsQuery("get_readings") =>
        LET body == resp.result.body IN
        /\ \A p \in pushed :
               p.at > Cutoff =>
                   \E k \in 1..Len(body) :
                       /\ body[k] = p.data
                       /\ fromisoformat(body[k].timestamp) = p.at
        /\ \A k \in 1..(Len(body) - 1) :
               fromisoformat(body[k].timestamp) <= fromisoformat(body[k + 1].timestamp)
        /\ \A k \in 1..Len(body) : fromisoformat(body[k].timestamp) > Cutoff

\* two readings pushed against the order of their stamps, both returned, the later push first
C9_Witness ==
    /\ IsQuery("get_readings")
    /\ Len(store) >= 2
    /\ TimeOf(1) > TimeOf(2)
    /\ Len(resp.result.body) = 2
    /\ resp.result.body[1] = store[2]

\* the reason of every entry follows the temperature test first
ReasonsAre(anomalies, wt, wh) ==
    \A k \in 1..Len(anomalies) :
        /\ anomalies[k].reason \in {"Temperature spike", "Humidity spike"}
        /\ anomalies[k].reason = "Temperature spike"
               <=> Exceeds(anomalies[k].temperature, wt)
        /\ anomalies[k].reason = "Humidity spike"
               <=> ~Exceeds(anomalies[k].temperature, wt)
                       /\ Exceeds(anomalies[k].humidity, wh)

(* C10: an anomaly entry has the reason "Temperature spike" exactly when   *)
(* its temperature deviates by more than 2 sample standard deviations,     *)
(* whether or not its humidity does too, and "Humidity spike" exactly when *)
(* only its humidity does; there is no other reason.                       *)
C10_Reason ==
    Served("get_analysis") =>
        ReasonsAre(resp.result.body.anomalies, WindowOf(TempAt), WindowOf(HumAt))

BothExceed(anomalies, wt, wh) ==
    \E k \in 1..Len(anomalies) :
        /\ Exceeds(anomalies[k].temperature, wt)
        /\ Exceeds(anomalies[k].humidity, wh)
        /\ anomalies[k].reason = "Temperature spike"

\* an entry whose temperature and humidity both deviate, labelled by the temperature
C10_Witness ==
    /\ Served("get_analysis")
    /\ BothExceed(resp.result.body.anomalies, WindowOf(TempAt), WindowOf(HumAt))

(* C11: stored readings are immutable.  get_readings and get_analysis,     *)
(* whether they return or raise, leave the store as it was; a successful   *)
(* add_reading appends exactly one reading and leaves the temperature,     *)
(* humidity and timestamp of every reading stored before unchanged; the    *)
(* only step that removes a reading is clear_all_readings, and it removes  *)
(* them all.                                                               *)
C11_StoredReadingsImmutable ==
    [][ /\ resp'.op \in {"get_readings", "get_analysis"} => store' = store
        /\ resp'.op = "add_reading" /\ resp'.result.status = 200 =>
               /\ Len(store') = Len(store) + 1
               /\ \A i \in 1..Len(store) : store'[i] = store[i]
        /\ resp'.op = "clear_all_readings" => store' = <<>>
        /\ resp'.op # "clear_all_readings" =>
               /\ Len(store') >= Len(store)
               /\ \A i \in 1..Len(store) : store'[i] = store[i]
      ]_vars

\* get_analysis raised 404 on a store that holds two different readings, still there
C11_Witness ==
    /\ IsQuery("get_analysis")
    /\ resp.result.status = 404
    /\ Len(store) = 2
    /\ store[1] # store[2]
    /\ pushed = {[data |-> store[i], at |-> TimeOf(i)] : i \in 1..2}

\* every reading of the window has one temperature and one humidity
AllAlike ==
    \A i, j \in Kept : TempAt[i] = TempAt[j] /\ HumAt[i] = HumAt[j]

(* C12: get_analysis returns an empty anomalies list for every window of   *)
(* fewer than 6 readings, whatever their values, and for every window in   *)
(* which all temperatures are equal and all humidities are equal.          *)
C12_NoAnomalyBelowSix ==
    Served("get_analysis") =>
        /\ N < 6 => resp.result.body.anomalies = <<>>
        /\ AllAlike => resp.result.body.anomalies = <<>>

\* a window of 5 readings, one of them an outlier in temperature and one in humidity: none listed
C12_Witness ==
    /\ Served("get_analysis")
    /\ N = 5
    /\ Cardinality({i \in Kept : TempAt[i] = 80}) = 1
    /\ Cardinality({i \in Kept : TempAt[i] = 20}) = 4
    /\ \E i \in Kept : HumAt[i] # 50
    /\ resp.result.body.anomalies = <<>>

=============================================================================
